---- MODULE Spec2Model ----
(***************************************************************************)
(* A model of src/src/regex.ts: the recursive-descent parser (parse, p,    *)
(* simplify), the Thompson-style NFA builder (makeNfa, makeEdge) and the   *)
(* subset-simulation matcher (match, addNodeToSet).                        *)
(*                                                                         *)
(* Strings are sequences of one-character strings.  The source indexes     *)
(* strings from 0, the model from 1: a model position is the source        *)
(* position plus one.  NFA nodes have identity only; the model names a     *)
(* node by its allocation order (1 = startNode, 2 = the top-level end).    *)
(***************************************************************************)
EXTENDS Integers, Sequences, FiniteSets, TLC

VARIABLES
  pc,       \* where the caller is: "pattern", "parsed", "failed", "built",
            \* inside match ("init", "loop"), "matched"; "tree", "simplified",
            \* "resimplified" when simplify is called on its own
  pattern,  \* the regex handed to parse
  err,      \* the message parse threw, or "none"
  errPos,   \* the scan position at which it was thrown (0 when none)
  node,     \* the argument of simplify when it is called on its own
  once,     \* what simplify returned for node
  ast,      \* what parse returned; what simplify returned for `once`
  ds,       \* the graph: ds[n] is node n's list of edges [v, t]
  str,      \* the input of the running match
  pos,      \* the position in str of the character being consumed
  ns,       \* match's current state set
  newNs,    \* match's next state set
  nj,       \* the member of ns the loop is at
  ek,       \* the edge of that member the loop is at
  stack,    \* the active addNodeToSet calls: node n, next edge e
  result    \* what the last match returned

vars == <<pc, pattern, err, errPos, node, once, ast, ds, str, pos, ns, newNs, nj, ek, stack, result>>

(* ------------------------------ bounds --------------------------------- *)

MaxPatLen == 5

MaxMatchPatLen == 5

MaxStack == 8

MaxStrLen == 2

MaxSize == 4

MaxArity == 3

Literals == {"a", "b"}

PatternChars == Literals \cup {"(", ")", "|", "*"}

MatchLiterals == {"a"}

MatchPatternChars == MatchLiterals \cup {"(", ")", "|", "*"}

AtomValues == Literals \cup {""}

StringsUpTo(S, n) == UNION {[1..m -> S] : m \in 0..n}

(* ------------------------------- Ast ----------------------------------- *)

\* `let node: Ast.Node | null = null`.  Every node is a record of its kind k
\* and its value v, in that order, so that two nodes of different kinds differ
\* in k before their values are compared.
NullNode == [k |-> "null", v |-> ""]

AstAtom(v) == [k |-> "atom", v |-> v]

AstSeq(v) == [k |-> "seq", v |-> v]

AstAlt(v) == [k |-> "alt", v |-> v]

AstStar(v) == [k |-> "star", v |-> v]

(* ------------------------------ parse ---------------------------------- *)

Throw(msg, i) == [err |-> msg, i |-> i, node |-> NullNode]

Return(i, n) == [err |-> "none", i |-> i, node |-> n]

\* seq.v.push(node) on the sequence currently being built; `seq` always
\* aliases the last element of alt.v.
PushTerm(alt, n) == [alt EXCEPT ![Len(alt)] = Append(@, n)]

\* seq.v[seq.v.length - 1] = node.  On an empty array the index is -1: the
\* assignment creates a property named "-1" that neither length nor
\* iteration sees, so the sequence is unchanged.
ReplaceLastTerm(alt, n) ==
  IF Len(alt[Len(alt)]) = 0 THEN alt
  ELSE [alt EXCEPT ![Len(alt)] = [@ EXCEPT ![Len(@)] = n]]

\* The `c === ')'` branch of p.
CloseScope(i, n, alt) ==
  LET seq == alt[Len(alt)] IN
  IF Len(alt) > 1 THEN Return(i, AstAlt([a \in 1..Len(alt) |-> AstSeq(alt[a])]))
  ELSE IF Len(seq) > 1 THEN Return(i, AstSeq(seq))
  ELSE IF n.k # "null" THEN Return(i, n)
  ELSE Throw("empty parens", i)

RECURSIVE pLoop(_, _, _, _)

\* One call of p: fresh node, seq and alt, then the scanning loop.
p(s, i) == pLoop(s, i, NullNode, << <<>> >>)

\* The while loop of p, from position i with locals node and alt.
pLoop(s, i, n, alt) ==
  IF i > Len(s) THEN Throw("termination too early", i)
  ELSE LET c == s[i] IN
    CASE c = "(" ->
           LET r == p(s, i + 1) IN
           IF r.err # "none" THEN r
           ELSE pLoop(s, r.i + 1, r.node, PushTerm(alt, r.node))
      [] c = ")" -> CloseScope(i, n, alt)
      [] c = "*" ->
           IF n.k # "null"
           THEN pLoop(s, i + 1, AstStar(n), ReplaceLastTerm(alt, AstStar(n)))
           ELSE Throw("star without thing", i)
      [] c = "|" -> pLoop(s, i + 1, n, Append(alt, <<>>))
      [] OTHER -> pLoop(s, i + 1, AstAtom(c), PushTerm(alt, AstAtom(c)))

RECURSIVE simplify(_)

\* The star is kept even when its simplified child is a star.
SimplifyStarKeep(n) == AstStar(simplify(n.v))

\* The child is tested for being a star before it is simplified.
SimplifyStarEarly(n) ==
  IF n.v.k = "star" THEN simplify(n.v.v) ELSE AstStar(simplify(n.v))

\* The star branch of simplify: `node = new Ast.Star(simplify(node.v))`, then
\* `node.v.v` (the child of the inner star) when node.v is a star.
SimplifyStar(n) ==
  LET child == simplify(n.v) IN
  IF child.k = "star" THEN child.v ELSE AstStar(child)

simplify(n) ==
  CASE n.k = "seq" ->
         LET newV == [c \in 1..Len(n.v) |-> simplify(n.v[c])] IN
         IF Len(newV) = 1 THEN simplify(newV[1])
         ELSE IF Len(newV) = 0 THEN AstAtom("")
         ELSE AstSeq(newV)
    [] n.k = "alt" -> AstAlt([c \in 1..Len(n.v) |-> simplify(n.v[c])])
    [] n.k = "star" -> SimplifyStar(n)
    [] OTHER -> n

\* parse(s): append the closing delimiter, run p, check all was consumed,
\* simplify.
parse(s0) ==
  LET s == Append(s0, ")")
      r == p(s, 1)
  IN IF r.err # "none" THEN r
     ELSE IF r.i # Len(s) THEN Throw("not everything consumed", r.i)
     ELSE Return(r.i, simplify(r.node))

(* ------------------------------ makeNfa -------------------------------- *)

\* The graph is the sequence of the nodes' edge lists (Nfa.Node.ds), indexed
\* by node; `new Nfa.Node()` appends an empty edge list.
NewNodes(g, count) == g \o [c \in 1..count |-> <<>>]

Edge(v, t) == [v |-> v, t |-> t]

\* from.ds.push(new Nfa.Edge(v, t))
PushEdge(g, from, v, t) == [g EXCEPT ![from] = Append(@, Edge(v, t))]

\* The star fragment has no edge from middle to end.
StarExitMissing(g, middle, end) == g

\* middle.ds.push(new Nfa.Edge('', end))
StarExit(g, middle, end) == PushEdge(g, middle, "", end)

RECURSIVE makeEdge(_, _, _, _), SeqEdges(_, _, _, _, _), AltEdges(_, _, _, _, _)

\* The seq loop: child c of v goes from `last` to nextNodes[c], which is the
\* next `last`.  zip stops at the shorter of the two lists.
SeqEdges(g, v, nextNodes, c, last) ==
  IF c > Len(v) \/ c > Len(nextNodes) THEN g
  ELSE SeqEdges(makeEdge(g, v[c], last, nextNodes[c]), v, nextNodes, c + 1, nextNodes[c])

\* The alt loop: every child between the same start and end.
AltEdges(g, v, c, start, end) ==
  IF c > Len(v) THEN g
  ELSE AltEdges(makeEdge(g, v[c], start, end), v, c + 1, start, end)

makeEdge(g, a, start, end) ==
  CASE a.k = "seq" ->
         LET fresh == IF Len(a.v) > 1 THEN Len(a.v) - 1 ELSE 0
             nextNodes == Append([c \in 1..fresh |-> Len(g) + c], end)
         IN SeqEdges(NewNodes(g, fresh), a.v, nextNodes, 1, start)
    [] a.k = "alt" -> AltEdges(g, a.v, 1, start, end)
    [] a.k = "star" ->
         LET middle == Len(g) + 1
             g1 == PushEdge(NewNodes(g, 1), start, "", middle)
         IN StarExit(makeEdge(g1, a.v, middle, middle), middle, end)
    [] a.k = "atom" -> PushEdge(g, start, a.v, end)
    [] OTHER -> g

startNode == 1

endNode == 2

\* makeNfa: a fresh start node and a fresh end node, the AST between them.
makeNfa(a) == makeEdge(NewNodes(<<>>, 2), a, startNode, endNode)

(* ------------------------------- match --------------------------------- *)

\* A Set<Nfa.Node> is the sequence of its members in insertion order, which
\* is the order `for (let n of ns)` visits them.
Has(set, n) == \E m \in 1..Len(set) : set[m] = n

Members(set) == {set[m] : m \in 1..Len(set)}

Frame(n) == [n |-> n, e |-> 1]

\* The node is added, but its own edges are never followed.
EnterShallow(set, stk, n) ==
  IF Has(set, n) THEN [set |-> set, stack |-> stk]
  ELSE [set |-> Append(set, n), stack |-> stk]

\* The membership test is missing: the node's edges are followed again.
EnterUnchecked(set, stk, n) ==
  [set |-> IF Has(set, n) THEN set ELSE Append(set, n),
   stack |-> Append(stk, Frame(n))]

\* A call addNodeToSet(set, n): nothing when n is a member; otherwise n is
\* added and a frame for the loop over n.ds is entered.
Enter(set, stk, n) ==
  IF Has(set, n) THEN [set |-> set, stack |-> stk]
  ELSE [set |-> Append(set, n), stack |-> Append(stk, Frame(n))]

\* The accepting test of match: some member has no outgoing edge.
Accepting(g, set) == \E n \in Members(set) : Len(g[n]) = 0

RECURSIVE addNodeToSet(_, _, _), AddEdges(_, _, _, _)

\* addNodeToSet as a function: the set after the call returns.
addNodeToSet(g, set, n) ==
  IF Has(set, n) THEN set ELSE AddEdges(g, Append(set, n), n, 1)

AddEdges(g, set, n, e) ==
  IF e > Len(g[n]) THEN set
  ELSE AddEdges(g, IF g[n][e].v = "" THEN addNodeToSet(g, set, g[n][e].t) ELSE set,
                n, e + 1)

RECURSIVE StepEdges(_, _, _, _, _, _), StepChars(_, _, _, _)

\* The two inner loops of match for one character c, from member nj of
\* cur and its edge e.
StepEdges(g, cur, c, m, e, new) ==
  IF m > Len(cur) THEN new
  ELSE IF e > Len(g[cur[m]]) THEN StepEdges(g, cur, c, m + 1, 1, new)
  ELSE StepEdges(g, cur, c, m, e + 1,
         IF c = g[cur[m]][e].v THEN addNodeToSet(g, new, g[cur[m]][e].t) ELSE new)

StepChars(g, cur, s, i) ==
  IF i > Len(s) THEN cur
  ELSE StepChars(g, StepEdges(g, cur, s[i], 1, 1, <<>>), s, i + 1)

\* match(startNode, str) as a function of the graph and the input.
match(g, s) == Accepting(g, StepChars(g, addNodeToSet(g, <<>>, startNode), s, 1))

(* --------------------------- state machine ------------------------------ *)

\* What the last call of match returned: nothing yet, or one boolean.
NoResult == <<>>

\* A caller hands a pattern to parse; nothing else exists yet.
InitIdle ==
  /\ err = "none" /\ errPos = 0
  /\ node = NullNode /\ once = NullNode /\ ast = NullNode
  /\ ds = <<>>
  /\ str = <<>> /\ pos = 0
  /\ ns = <<>> /\ newNs = <<>> /\ nj = 0 /\ ek = 0
  /\ stack = <<>>
  /\ result = NoResult

matchVars == <<str, pos, ns, newNs, nj, ek, stack, result>>

InitParse ==
  /\ pc = "pattern"
  /\ pattern \in StringsUpTo(PatternChars, MaxPatLen)
  /\ InitIdle

\* let ast = parse(testCase.regex): either an AST or a thrown message.
Parse ==
  /\ pc = "pattern"
  /\ LET r == parse(pattern) IN
       /\ err' = r.err
       /\ errPos' = IF r.err = "none" THEN 0 ELSE r.i
       /\ ast' = r.node
       /\ pc' = IF r.err = "none" THEN "parsed" ELSE "failed"
  /\ UNCHANGED <<pattern, node, once, ds, matchVars>>

\* let nfa = makeNfa(ast)
MakeNfa ==
  /\ pc = "parsed"
  /\ ds' = makeNfa(ast)
  /\ pc' = "built"
  /\ UNCHANGED <<pattern, err, errPos, node, once, ast, matchVars>>

NextParse == Parse \/ MakeNfa

SpecParse == InitParse /\ [][NextParse]_vars

(* ------------------------- simplify on any AST -------------------------- *)

RECURSIVE Trees(_), Forests(_, _)

\* The ASTs of exactly `size` nodes, of arity at most MaxArity.
Trees(size) ==
  IF size = 1
  THEN {AstAtom(v) : v \in AtomValues} \cup {AstSeq(<<>>), AstAlt(<<>>)}
  ELSE {AstStar(t) : t \in Trees(size - 1)}
       \cup UNION {{AstSeq(f), AstAlt(f)} :
                     f \in UNION {Forests(size - 1, a) : a \in 1..MaxArity}}

\* The lists of `a` ASTs with `size` nodes in all.
Forests(size, a) ==
  IF a = 0 THEN (IF size = 0 THEN {<<>>} ELSE {})
  ELSE UNION {{<<t>> \o f : t \in Trees(m), f \in Forests(size - m, a - 1)} :
                m \in 1..(size - a + 1)}

InitSimplify ==
  /\ pc = "tree"
  /\ pattern = <<>>
  /\ err = "none" /\ errPos = 0
  /\ node \in UNION {Trees(size) : size \in 1..MaxSize}
  /\ once = NullNode /\ ast = NullNode
  /\ ds = <<>>
  /\ str = <<>> /\ pos = 0
  /\ ns = <<>> /\ newNs = <<>> /\ nj = 0 /\ ek = 0
  /\ stack = <<>>
  /\ result = NoResult

\* simplify(node)
SimplifyCall ==
  /\ pc = "tree"
  /\ once' = simplify(node)
  /\ pc' = "simplified"
  /\ UNCHANGED <<pattern, err, errPos, node, ast, ds, matchVars>>

\* simplify applied to what simplify returned.
SimplifyAgain ==
  /\ pc = "simplified"
  /\ ast' = simplify(once)
  /\ pc' = "resimplified"
  /\ UNCHANGED <<pattern, err, errPos, node, once, ds, matchVars>>

NextSimplify == SimplifyCall \/ SimplifyAgain

SpecSimplify == InitSimplify /\ [][NextSimplify]_vars

(* --------------------- match, one step at a time ----------------------- *)

InitMatch ==
  /\ pc = "pattern"
  /\ pattern \in StringsUpTo(MatchPatternChars, MaxMatchPatLen)
  /\ InitIdle

\* The set addNodeToSet is filling: ns before the loop over str, newNs in it.
Target == IF pc = "init" THEN ns ELSE newNs

SetTarget(set) ==
  IF pc = "init" THEN ns' = set /\ newNs' = newNs
  ELSE newNs' = set /\ ns' = ns

\* The set of the previous call is used again instead of a fresh one.
MatchCallStale ==
  /\ pc \in {"built", "matched"}
  /\ \E s \in StringsUpTo(Literals, MaxStrLen) : str' = s
  /\ LET r == Enter(ns, <<>>, startNode) IN ns' = r.set /\ stack' = r.stack
  /\ newNs' = <<>> /\ pos' = 0 /\ nj' = 0 /\ ek' = 0
  /\ pc' = "init"
  /\ UNCHANGED <<pattern, err, errPos, node, once, ast, ds, result>>

\* match(nfa, v) is called: `ns = new Set()`, addNodeToSet(ns, startNode).
MatchCall ==
  /\ pc \in {"built", "matched"}
  /\ \E s \in StringsUpTo(Literals, MaxStrLen) : str' = s
  /\ LET r == Enter(<<>>, <<>>, startNode) IN ns' = r.set /\ stack' = r.stack
  /\ newNs' = <<>> /\ pos' = 0 /\ nj' = 0 /\ ek' = 0
  /\ pc' = "init"
  /\ UNCHANGED <<pattern, err, errPos, node, once, ast, ds, result>>

\* addNodeToSet looks at the next edge of the node of its innermost call and
\* calls itself on the target of an empty-label edge.
AddNodeEdge ==
  /\ pc \in {"init", "loop"}
  /\ stack # <<>>
  /\ LET top == stack[Len(stack)] IN
       /\ top.e <= Len(ds[top.n])
       /\ LET e == ds[top.n][top.e]
              stk == [stack EXCEPT ![Len(stack)].e = top.e + 1]
          IN IF e.v = ""
             THEN /\ Len(stack) < MaxStack
                  /\ LET r == Enter(Target, stk, e.t) IN
                       SetTarget(r.set) /\ stack' = r.stack
             ELSE SetTarget(Target) /\ stack' = stk
  /\ UNCHANGED <<pc, pattern, err, errPos, node, once, ast, ds, str, pos, nj, ek, result>>

\* The innermost addNodeToSet has looked at every edge and returns.
AddNodeReturn ==
  /\ pc \in {"init", "loop"}
  /\ stack # <<>>
  /\ stack[Len(stack)].e > Len(ds[stack[Len(stack)].n])
  /\ stack' = SubSeq(stack, 1, Len(stack) - 1)
  /\ UNCHANGED <<pc, pattern, err, errPos, node, once, ast, ds, str, pos, ns, newNs, nj, ek, result>>

\* The first closure has returned; the loop over str begins (or is skipped).
EnterLoop ==
  /\ pc = "init" /\ stack = <<>>
  /\ pc' = "loop" /\ pos' = 1 /\ nj' = 1 /\ ek' = 1 /\ newNs' = <<>>
  /\ UNCHANGED <<pattern, err, errPos, node, once, ast, ds, str, ns, stack, result>>

\* `if (c === e.v) addNodeToSet(newNs, e.t)` for the next edge of member nj.
ScanEdge ==
  /\ pc = "loop" /\ stack = <<>>
  /\ pos <= Len(str) /\ nj <= Len(ns) /\ ek <= Len(ds[ns[nj]])
  /\ LET e == ds[ns[nj]][ek] IN
       IF str[pos] = e.v
       THEN LET r == Enter(newNs, <<>>, e.t) IN newNs' = r.set /\ stack' = r.stack
       ELSE UNCHANGED <<newNs, stack>>
  /\ ek' = ek + 1
  /\ UNCHANGED <<pc, pattern, err, errPos, node, once, ast, ds, str, pos, ns, nj, result>>

\* The edges of member nj are exhausted: `for (let n of ns)` moves on.
NextNode ==
  /\ pc = "loop" /\ stack = <<>>
  /\ pos <= Len(str) /\ nj <= Len(ns) /\ ek > Len(ds[ns[nj]])
  /\ nj' = nj + 1 /\ ek' = 1
  /\ UNCHANGED <<pc, pattern, err, errPos, node, once, ast, ds, str, pos, ns, newNs, stack, result>>

\* Every member was visited for this character: `ns = newNs`, next character.
NextChar ==
  /\ pc = "loop" /\ stack = <<>>
  /\ pos <= Len(str) /\ nj > Len(ns)
  /\ ns' = newNs /\ newNs' = <<>>
  /\ pos' = pos + 1 /\ nj' = 1 /\ ek' = 1
  /\ UNCHANGED <<pc, pattern, err, errPos, node, once, ast, ds, str, stack, result>>

\* All of str is consumed: true iff some member has no outgoing edge.
Finish ==
  /\ pc = "loop" /\ stack = <<>>
  /\ pos > Len(str)
  /\ result' = <<Accepting(ds, ns)>>
  /\ pc' = "matched"
  /\ UNCHANGED <<pattern, err, errPos, node, once, ast, ds, str, pos, ns, newNs, nj, ek, stack>>

MatchStep ==
  \/ AddNodeEdge \/ AddNodeReturn \/ EnterLoop
  \/ ScanEdge \/ NextNode \/ NextChar \/ Finish

NextMatch == Parse \/ MakeNfa \/ MatchCall \/ MatchStep

SpecMatch == InitMatch /\ [][NextMatch]_vars

\* match runs to completion once called: its steps are not postponed forever.
FairSpecMatch == SpecMatch /\ WF_vars(MatchStep)

(* ------------------------ reference definitions ------------------------ *)

\* The AST p builds for a pattern, before simplification: the structure in
\* which the pattern was written.
RawAst(pat) == p(Append(pat, ")"), 1).node

RECURSIVE InLang(_, _), InLangSeq(_, _, _)

\* s is in the language of AST n: an atom is its one character (the empty
\* atom the empty string), a seq the concatenation, an alt the choice, a
\* star zero or more repetitions.
InLang(n, s) ==
  CASE n.k = "atom" -> IF n.v = "" THEN Len(s) = 0 ELSE Len(s) = 1 /\ s[1] = n.v
    [] n.k = "alt" -> \E c \in 1..Len(n.v) : InLang(n.v[c], s)
    [] n.k = "seq" -> InLangSeq(n.v, 1, s)
    [] n.k = "star" ->
         \/ Len(s) = 0
         \/ \E i \in 1..Len(s) :
              InLang(n.v, SubSeq(s, 1, i)) /\ InLang(n, SubSeq(s, i + 1, Len(s)))
    [] OTHER -> FALSE

InLangSeq(v, c, s) ==
  IF c > Len(v) THEN Len(s) = 0
  ELSE \E i \in 0..Len(s) :
         InLang(v[c], SubSeq(s, 1, i)) /\ InLangSeq(v, c + 1, SubSeq(s, i + 1, Len(s)))

RECURSIVE WellFormed(_), StarOfStar(_), ShortSeq(_)

\* Every Seq has at least 2 children and no Star has a Star child.
WellFormed(n) ==
  CASE n.k = "seq" -> Len(n.v) >= 2 /\ \A c \in 1..Len(n.v) : WellFormed(n.v[c])
    [] n.k = "alt" -> \A c \in 1..Len(n.v) : WellFormed(n.v[c])
    [] n.k = "star" -> n.v.k # "star" /\ WellFormed(n.v)
    [] OTHER -> n.k = "atom"

\* Some Star of n has a Star as its child.
StarOfStar(n) ==
  CASE n.k \in {"seq", "alt"} -> \E c \in 1..Len(n.v) : StarOfStar(n.v[c])
    [] n.k = "star" -> n.v.k = "star" \/ StarOfStar(n.v)
    [] OTHER -> FALSE

\* Some Seq of n has fewer than 2 children.
ShortSeq(n) ==
  CASE n.k = "seq" -> Len(n.v) < 2 \/ \E c \in 1..Len(n.v) : ShortSeq(n.v[c])
    [] n.k = "alt" -> \E c \in 1..Len(n.v) : ShortSeq(n.v[c])
    [] n.k = "star" -> ShortSeq(n.v)
    [] OTHER -> FALSE

\* The positions of the stars of s with no preceding term in the sequence
\* being built: first in the pattern, or right after "(" or "|".
DanglingStars(s) ==
  {i \in 1..Len(s) : s[i] = "*" /\ (i = 1 \/ s[i - 1] \in {"(", "|"})}

RECURSIVE OpenGroups(_, _, _)

\* The number of "(" of s left without a matching ")".
OpenGroups(s, i, depth) ==
  IF i > Len(s) THEN depth
  ELSE OpenGroups(s, i + 1,
         IF s[i] = "(" THEN depth + 1
         ELSE IF s[i] = ")" /\ depth > 0 THEN depth - 1 ELSE depth)

RECURSIVE ReachFrom(_, _)

\* The nodes reachable from `set` along edges of any label.
ReachFrom(g, set) ==
  LET more == set \cup UNION {{g[n][e].t : e \in 1..Len(g[n])} : n \in set}
  IN IF more = set THEN set ELSE ReachFrom(g, more)

Sinks(g) == {n \in 1..Len(g) : Len(g[n]) = 0}

\* set contains the target of every empty-label edge of every member.
Closed(g, set) ==
  \A n \in Members(set) : \A e \in 1..Len(g[n]) :
    g[n][e].v = "" => Has(set, g[n][e].t)

\* Some node has an empty-label edge to itself.
EpsilonLoop(g) ==
  \E n \in 1..Len(g) : \E e \in 1..Len(g[n]) : g[n][e].v = "" /\ g[n][e].t = n

ParseDone == pc \in {"parsed", "failed"}

(* ------------------------------- claims -------------------------------- *)

\* C1: when match returns, its result is true exactly when the whole input
\* is in the language of the pattern under the reference semantics.
WholeStringSemantics ==
  pc = "matched" => (result[1] <=> InLang(RawAst(pattern), str))

\* C2: simplify(Star(Star(x))) equals simplify(Star(x)), and a Star whose
\* simplified child is a Star simplifies to that inner Star.
StarCollapse ==
  (pc = "simplified" /\ node.k = "star") =>
    /\ node.v.k = "star" => once = simplify(node.v)
    /\ simplify(node.v).k = "star" => once = simplify(node.v)

\* C3: a star with no preceding term makes parse fail with the star error at
\* that star, unless parse has already failed before reaching it.
DanglingStarRejected ==
  ParseDone =>
    \A i \in DanglingStars(pattern) :
      /\ err # "none"
      /\ (err = "star without thing" /\ errPos = i) \/ errPos < i

\* C4: a pattern with an unclosed "(" makes parse fail with "termination too
\* early", unless parse has already failed inside the pattern itself.
UnterminatedGroupError ==
  (ParseDone /\ OpenGroups(pattern, 1, 0) > 0) =>
    /\ err # "none"
    /\ err = "termination too early" \/ errPos <= Len(pattern)

\* C5: the built graph has exactly one node without outgoing edges, the
\* top-level end node, and it is reachable from the start node.
SingleSink ==
  pc = "built" =>
    /\ Sinks(ds) = {endNode}
    /\ endNode \in ReachFrom(ds, {startNode})

SingleSinkWitness ==
  /\ pc = "built"
  /\ Len(ds) >= 5
  /\ \E n \in 1..Len(ds) : \E e \in 1..Len(ds[n]) : ds[n][e].t = n

\* C6: in every AST parse returns, every Seq has at least 2 children and no
\* Star has a Star as its child, at every depth.
SimplifiedShape ==
  (pc \in {"parsed", "built"}) => WellFormed(ast)

SimplifiedShapeWitness ==
  /\ pc = "parsed"
  /\ StarOfStar(RawAst(pattern))
  /\ ShortSeq(RawAst(pattern))
  /\ ast.k = "alt"

\* C7: simplifying what simplify returned gives back the same AST.
SimplifyIdempotent ==
  pc = "resimplified" => ast = once

SimplifyIdempotentWitness ==
  /\ pc = "resimplified"
  /\ once # node
  /\ StarOfStar(node)
  /\ ShortSeq(node)

\* C8: every set addNodeToSet has finished filling contains the nodes it was
\* called on and the target of every empty-label edge of every member.
ClosureSound ==
  /\ pc = "init" => Has(ns, startNode)
  /\ (pc = "init" /\ stack = <<>>) => Closed(ds, ns)
  /\ (pc \in {"loop", "matched"}) => Closed(ds, ns)
  /\ (pc = "loop" /\ stack = <<>>) =>
       /\ Closed(ds, newNs)
       /\ \A m \in 1..Len(ns) : \A e \in 1..Len(ds[ns[m]]) :
            (/\ m < nj \/ (m = nj /\ e < ek)
             /\ pos <= Len(str)
             /\ ds[ns[m]][e].v = str[pos]) => Has(newNs, ds[ns[m]][e].t)

ClosureSoundWitness ==
  /\ pc = "loop" /\ stack = <<>>
  /\ pos = 2 /\ nj > Len(ns)
  /\ Len(newNs) >= 2
  /\ \E m \in 1..Len(newNs) : \E e \in 1..Len(ds[newNs[m]]) :
       ds[newNs[m]][e].v = "" /\ ds[newNs[m]][e].t = newNs[m]

\* C9: while and after match runs, the graph is the one makeNfa built, and
\* what match returns is what it returns on that graph with no call before.
MatchReadsOnly ==
  (pc \in {"init", "loop", "matched"}) =>
    /\ ds = makeNfa(ast)
    /\ pc = "matched" => result = <<match(makeNfa(ast), str)>>

MatchReadsOnlyWitness ==
  /\ pc = "loop" /\ stack = <<>>
  /\ result = <<FALSE>>
  /\ Len(str) > 0 /\ pos > Len(str)
  /\ Accepting(ds, ns)

\* C10: every call of match returns a boolean, and no node has two active
\* addNodeToSet calls at once.
MatchTerminates ==
  /\ [](\A c, d \in 1..Len(stack) : stack[c].n = stack[d].n => c = d)
  /\ (pc = "init") ~> (pc = "matched" /\ result \in {<<TRUE>>, <<FALSE>>})

MatchTerminatesWitness ==
  /\ pc = "matched"
  /\ EpsilonLoop(ds)
  /\ Len(str) > 0
  /\ result = <<TRUE>>

====
